---- MODULE Spec2Model ----
(***************************************************************************)
(* Model of django/db/models/functions/json.py: the JSONObject, JSONSet   *)
(* and JSONRemove expression nodes, their construction, resolution and    *)
(* per-dialect compilation to SQL text and parameters.                    *)
(*                                                                         *)
(* SQL text is a sequence of tokens (strings); key paths are sequences of *)
(* one-character strings so that key.split(LOOKUP_SEP) is computed.       *)
(***************************************************************************)
EXTENDS Integers, Sequences, FiniteSets, TLC

(* ------------------------------ bounds -------------------------------- *)

\* Largest number of key/value pairs (JSONSet, JSONObject) or paths
\* (JSONRemove) handed to a constructor.
MaxPairs == 3

(* --------------------------- small universes -------------------------- *)

\* LOOKUP_SEP = "__" (django.db.models.constants), as characters.
LOOKUP_SEP == <<"_", "_">>

\* Key strings offered to the constructors: "a", "a__b", "c__0".
Keys == { <<"a">>, <<"a", "_", "_", "b">>, <<"c", "_", "_", "0">> }

\* Columns of the model a query is resolved against, with their field type.
ColumnField == [data |-> "JSON", qty |-> "Int", notes |-> "Text"]

Vendors == {"sqlite", "postgresql", "oracle"}

\* connection.features: the capability flags json.py reads.
Features ==
    [supports_partial_json_update : BOOLEAN,
     has_json_object_function : BOOLEAN,
     is_postgresql_16 : BOOLEAN]

\* is_postgresql_16 is a feature of the PostgreSQL backend only.
Connections ==
    {c \in [vendor : Vendors, features : Features] :
        c.features.is_postgresql_16 => c.vendor = "postgresql"}

(* ------------------------- expression nodes --------------------------- *)

\* A Python value that is not an expression (has no resolve_expression).
\* value is "None" or the text of a JSON-serialisable literal.
Raw(v) == [type |-> "Raw", value |-> v]

\* F("name"): a column reference before resolution.
F(name) == [type |-> "F", name |-> name]

\* Col: a resolved column reference with its field type.
Col(name) == [type |-> "Col", name |-> name, of |-> ColumnField[name]]

\* Value(...).  kind says what the wrapped Python object is:
\*   "py"   a Python scalar ("None" or a literal), in .value
\*   "str"  a string, in .text                 (Value(key_paths_join))
\*   "list" a list of strings, in .list        (Value(key_paths))
\*   "expr" another expression, in .arg        (Value(Value(...)))
\* of is the declared output field, "None" when not given.
Value(v, of) ==
    [type |-> "Value", kind |-> "py", value |-> v, text |-> <<>>,
     list |-> <<>>, arg |-> <<>>, of |-> of]
ValueStr(chars) ==
    [type |-> "Value", kind |-> "str", value |-> "", text |-> chars,
     list |-> <<>>, arg |-> <<>>, of |-> "None"]
ValueList(segs) ==
    [type |-> "Value", kind |-> "list", value |-> "", text |-> <<>>,
     list |-> segs, arg |-> <<>>, of |-> "None"]
ValueExpr(e, of) ==
    [type |-> "Value", kind |-> "expr", value |-> "", text |-> <<>>,
     list |-> <<>>, arg |-> <<e>>, of |-> of]

Cast(e, of) == [type |-> "Cast", arg |-> e, of |-> of]
ToJSONB(e, of) == [type |-> "ToJSONB", arg |-> e, of |-> of]

\* The three nodes of json.py.  src is Func.source_expressions; of is the
\* output_field given to the constructor ("None" when not given).
JSONSetNode(src, fields, of) ==
    [type |-> "JSONSet", src |-> src, fields |-> fields, of |-> of]
JSONRemoveNode(src, paths) ==
    [type |-> "JSONRemove", src |-> src, paths |-> paths, of |-> "None"]
JSONObjectNode(src) ==
    [type |-> "JSONObject", src |-> src, of |-> "JSON"]

NoNode == [type |-> "NoNode"]

\* hasattr(value, "resolve_expression")
IsExpression(v) == v.type \notin {"Raw", "NoNode"}

\* isinstance(value, Value)
IsValue(v) == v.type = "Value"

(* --------------------------- sequences -------------------------------- *)

RECURSIVE Flatten(_)
Flatten(ss) == IF Len(ss) = 0 THEN <<>> ELSE Head(ss) \o Flatten(Tail(ss))

\* All sequences over S of length lo..hi.
SeqsOf(S, lo, hi) == UNION { [1..n -> S] : n \in lo..hi }

\* Sequences of pairs whose keys are pairwise distinct (a dict).
IsMapping(ps) == \A i, j \in 1..Len(ps) : ps[i].key = ps[j].key => i = j

(* ----------------------------- key paths ------------------------------ *)

\* str.split(LOOKUP_SEP): left-to-right, non-overlapping separators.
RECURSIVE SplitFrom(_, _, _)
SplitFrom(s, i, cur) ==
    IF i > Len(s) THEN <<cur>>
    ELSE IF i + 1 <= Len(s) /\ s[i] = LOOKUP_SEP[1] /\ s[i + 1] = LOOKUP_SEP[2]
         THEN <<cur>> \o SplitFrom(s, i + 2, <<>>)
         ELSE SplitFrom(s, i + 1, Append(cur, s[i]))

Split(key) == SplitFrom(key, 1, <<>>)

Digits == {"0", "1", "2", "3", "4", "5", "6", "7", "8", "9"}

\* int(segment) succeeds (unsigned decimal segments only are modelled).
IsIntSegment(seg) == Len(seg) > 0 /\ \A i \in 1..Len(seg) : seg[i] \in Digits

\* compile_json_path(key_transforms, include_root=True):
\* "$" then '."seg"' for a name and "[n]" for an integer segment.
compile_json_path(key_paths) ==
    <<"$">> \o
    Flatten([i \in 1..Len(key_paths) |->
        IF IsIntSegment(key_paths[i])
        THEN <<"[">> \o key_paths[i] \o <<"]">>
        ELSE <<".", "\"">> \o key_paths[i] \o <<"\"">>])

(* --------------------------- output fields ---------------------------- *)

\* Expression.output_field.  A Func without a declared output_field takes
\* that of its source expressions; a Value without one infers it from the
\* Python type of its value ("Unknown" where Django raises FieldError).
RECURSIVE OutputField(_)
OutputField(e) ==
    CASE e.type = "Col" -> e.of
      [] e.type = "Value" ->
            IF e.of # "None" THEN e.of
            ELSE IF e.kind = "str" THEN "Char"
            ELSE IF e.kind = "py" /\ e.value # "None" THEN "Int"
            ELSE "Unknown"
      [] e.type \in {"Cast", "ToJSONB", "JSONObject"} -> e.of
      [] e.type \in {"JSONSet", "JSONRemove"} ->
            IF e.of # "None" THEN e.of ELSE OutputField(e.src[1])
      [] OTHER -> "Unknown"

\* isinstance(value.output_field, JSONField)
IsJSONField(e) == OutputField(e) = "JSON"

(* ------------------- construction and resolution ---------------------- *)

\* Func.__init__ / _parse_expressions: expressions are kept, other
\* arguments are wrapped in Value (the model passes no bare strings).
ParseExpression(arg) == IF IsExpression(arg) THEN arg ELSE Value(arg.value, "None")

\* resolve_expression of a leaf: F("name") becomes the column.
ResolveLeaf(e) == IF e.type = "F" THEN Col(e.name) ELSE e

\* Func.resolve_expression: a copy whose source expressions are resolved.
Func_resolve_expression(self) ==
    [self EXCEPT !.src = [i \in 1..Len(self.src) |-> ResolveLeaf(self.src[i])]]

\* JSONObject.__init__(**fields)
JSONObject_init(fields) ==
    [raised |-> "",
     node |-> JSONObjectNode(
        [i \in 1..(2 * Len(fields)) |->
            IF i % 2 = 1
            THEN ParseExpression(ValueStr(fields[(i + 1) \div 2].key))
            ELSE ParseExpression(fields[i \div 2].value)])]

\* Mutant: the emptiness check is missing.
JSONSet_init_unchecked(expression, output_field, fields) ==
    [raised |-> "",
     node |-> JSONSetNode(<<ParseExpression(expression)>>, fields, output_field)]

\* JSONSet.__init__(expression, output_field=None, **fields)
JSONSet_init(expression, output_field, fields) ==
    IF Len(fields) = 0
    THEN [raised |-> "TypeError", node |-> NoNode]
    ELSE [raised |-> "",
          node |-> JSONSetNode(<<ParseExpression(expression)>>, fields, output_field)]

\* JSONSet.resolve_expression
JSONSet_resolve_expression(self) ==
    LET c == Func_resolve_expression(self) IN
    [c EXCEPT !.fields =
        [i \in 1..Len(self.fields) |->
            [key |-> self.fields[i].key,
             value |-> IF IsExpression(self.fields[i].value)
                       THEN ResolveLeaf(self.fields[i].value)
                       ELSE Value(self.fields[i].value.value, OutputField(c))]]]

\* JSONRemove.__init__(expression, *paths, **kwargs)
JSONRemove_init(expression, paths) ==
    IF Len(paths) = 0
    THEN [raised |-> "TypeError", node |-> NoNode]
    ELSE [raised |-> "",
          node |-> JSONRemoveNode(<<ParseExpression(expression)>>, paths)]

\* node.resolve_expression(), by class.
resolve_expression(node) ==
    IF node.type = "JSONSet" THEN JSONSet_resolve_expression(node)
    ELSE Func_resolve_expression(node)

(* ------------------------- compilation results ------------------------ *)

\* What a compilation returns or raises.
\*   status      "ok", or the name of the exception raised
\*   sql, params the (sql, params) pair returned (empty when raising)
\*   apps        the native-function applications emitted, innermost first:
\*               the function, the source expressions handed to Func.as_sql
\*               and the fields / paths of the node that emitted it
\*   recursions  how many times a node rebuilt itself around a reduced copy
\*               and compiled that instead (the recursive calls made)
\*   built       the nodes constructed while compiling, in order
Res(st, s, ps, as, n) ==
    [status |-> st, sql |-> s, params |-> ps, apps |-> as, recursions |-> n,
     built |-> <<>>]

Raise(exc, recursions) == Res(exc, <<>>, <<>>, <<>>, recursions)

\* A query parameter.
Param(k, v, t, l) == [kind |-> k, value |-> v, text |-> t, list |-> l]

App(fn, es, fs, ps) == [function |-> fn, exprs |-> es, fields |-> fs, paths |-> ps]

\* json.dumps of a model scalar.
JsonDumps(v) == IF v = "None" THEN "null" ELSE v

\* Field.db_type / cast_db_type per backend.
DbType(of, vendor) ==
    CASE of = "JSON" -> IF vendor = "postgresql" THEN "jsonb"
                        ELSE IF vendor = "oracle" THEN "nclob" ELSE "text"
      [] of = "Int" -> "integer"
      [] OTHER -> IF vendor = "oracle" THEN "NCLOB" ELSE "text"

\* Value.as_sql: a typed value is prepared by its output field (a JSON field
\* serialises it, so None becomes the JSON text null); a value that is still
\* None after preparation is emitted as the SQL keyword NULL.
Value_as_sql(e) ==
    LET of == OutputField(e) IN
    CASE e.kind = "str" -> Res("ok", <<"%s">>, <<Param("str", "", e.text, <<>>)>>, <<>>, 0)
      [] e.kind = "list" -> Res("ok", <<"%s">>, <<Param("list", "", <<>>, e.list)>>, <<>>, 0)
      [] e.kind = "expr" ->
            IF of = "JSON" /\ IsJSONField(e.arg[1]) /\ e.arg[1].kind = "py"
            THEN Res("ok", <<"%s">>,
                     <<Param("json", JsonDumps(e.arg[1].value), <<>>, <<>>)>>, <<>>, 0)
            ELSE Res("ok", <<"%s">>, <<Param("expr", "", <<>>, <<>>)>>, <<>>, 0)
      [] OTHER ->
            IF of = "JSON"
            THEN Res("ok", <<"%s">>, <<Param("json", JsonDumps(e.value), <<>>, <<>>)>>, <<>>, 0)
            ELSE IF e.value = "None"
            THEN Res("ok", <<"NULL">>, <<>>, <<>>, 0)
            ELSE Res("ok", <<"%s">>, <<Param("py", e.value, <<>>, <<>>)>>, <<>>, 0)

\* str.join over already compiled arguments.
RECURSIVE JoinWith(_, _)
JoinWith(sep, parts) ==
    IF Len(parts) = 0 THEN <<>>
    ELSE IF Len(parts) = 1 THEN parts[1]
    ELSE parts[1] \o <<sep>> \o JoinWith(sep, Tail(parts))

\* JSONObject.join(args): zip(args[::2], args[1::2], strict=True)
JSONObject_join(self, args) ==
    IF Len(args) % 2 # 0
    THEN [status |-> "ValueError", sql |-> <<>>]
    ELSE [status |-> "ok",
          sql |-> JoinWith(",",
            [i \in 1..(Len(args) \div 2) |->
                <<"(">> \o args[2 * i - 1] \o <<")", "VALUE">> \o args[2 * i]])]

\* JSONSet.join(args); "q'~" and "~'" stand for the q'<U+FFFF> ... <U+FFFF>'
\* quoting of the path literal.
JSONSet_join(self, args) ==
    LET key == self.fields[1].key
        value == self.fields[1].value
        key_paths == Split(key)
        key_paths_join == compile_json_path(key_paths)
        template == args[1] \o <<",", "SET", "q'~">> \o key_paths_join
                        \o <<"~'", "=">> \o args[Len(args)]
    IN [status |-> "ok",
        sql |-> IF IsValue(value) THEN template \o <<"FORMAT", "JSON">> ELSE template]

\* JSONRemove.join(args)
JSONRemove_join(self, args) ==
    LET path == self.paths[1]
        key_paths == Split(path)
        key_paths_join == compile_json_path(key_paths)
    IN [status |-> "ok",
        sql |-> args[1] \o <<",", "REMOVE", "q'~">> \o key_paths_join \o <<"~'">>]

\* arg_joiner.join(sql_parts): a separator string, or a node's join method.
ArgJoin(arg_joiner, self, parts) ==
    CASE arg_joiner = "self" /\ self.type = "JSONObject" -> JSONObject_join(self, parts)
      [] arg_joiner = "self" /\ self.type = "JSONSet" -> JSONSet_join(self, parts)
      [] arg_joiner = "self" /\ self.type = "JSONRemove" -> JSONRemove_join(self, parts)
      [] arg_joiner = "#- " -> [status |-> "ok", sql |-> JoinWith("#-", parts)]
      [] OTHER -> [status |-> "ok", sql |-> JoinWith(",", parts)]

\* template % data
FillTemplate(template, function, expressions) ==
    CASE template = "%(expressions)s" -> expressions
      [] template = "%(function)s(%(expressions)s RETURNING JSONB)" ->
            <<function, "(">> \o expressions \o <<"RETURNING", "JSONB", ")">>
      [] template = "%(function)s(%(expressions)s RETURNING CLOB)" ->
            <<function, "(">> \o expressions \o <<"RETURNING", "CLOB", ")">>
      [] OTHER -> <<function, "(">> \o expressions \o <<")">>

Func_template == "%(function)s(%(expressions)s)"
Func_arg_joiner == ", "

(* ----------------------------- compilation ---------------------------- *)

RECURSIVE compile(_, _)
RECURSIVE compile_all(_, _)
RECURSIVE Func_as_sql(_, _, _, _, _, _, _)
RECURSIVE JSONSet_as_postgresql(_, _)
RECURSIVE JSONSet_as_oracle(_, _)
RECURSIVE JSONRemove_as_postgresql(_, _)
RECURSIVE JSONRemove_as_oracle(_, _)

\* The loop of Func.as_sql over the source expressions: each is compiled in
\* order, and the first exception ends the loop.
compile_all(exprs, connection) ==
    IF Len(exprs) = 0 THEN [status |-> "ok", parts |-> <<>>, params |-> <<>>,
                            apps |-> <<>>, recursions |-> 0, built |-> <<>>]
    ELSE LET h == compile(Head(exprs), connection) IN
         IF h.status # "ok"
         THEN [status |-> h.status, parts |-> <<>>, params |-> <<>>,
               apps |-> <<>>, recursions |-> h.recursions, built |-> h.built]
         ELSE LET t == compile_all(Tail(exprs), connection) IN
              IF t.status # "ok"
              THEN [t EXCEPT !.recursions = h.recursions + @,
                             !.built = h.built \o @]
              ELSE [status |-> "ok", parts |-> <<h.sql>> \o t.parts,
                    params |-> h.params \o t.params,
                    apps |-> h.apps \o t.apps,
                    recursions |-> h.recursions + t.recursions,
                    built |-> h.built \o t.built]

\* Func.as_sql(compiler, connection, function, template, arg_joiner) on a
\* node whose source expressions are exprs.  self is the node whose join
\* method is used when arg_joiner is "self"; app is what the node records
\* about the application it emits.
Func_as_sql(self, exprs, connection, function, template, arg_joiner, app) ==
    LET args == compile_all(exprs, connection) IN
    IF args.status # "ok"
    THEN [Raise(args.status, args.recursions) EXCEPT !.built = args.built]
    ELSE LET joined == ArgJoin(arg_joiner, self, args.parts) IN
         IF joined.status # "ok"
         THEN [Raise(joined.status, args.recursions) EXCEPT !.built = args.built]
         ELSE [Res("ok", FillTemplate(template, function, joined.sql),
                   args.params, args.apps \o app, args.recursions)
               EXCEPT !.built = args.built]

\* Cast.as_sql and its vendor variants.
Cast_as_sql(self, connection) ==
    LET arg == compile(self.arg, connection)
        db_type == DbType(self.of, connection.vendor)
    IN IF arg.status # "ok" THEN arg
       ELSE IF connection.vendor = "postgresql"
       THEN [arg EXCEPT !.sql = <<"(">> \o arg.sql \o <<")", "::", db_type>>]
       ELSE IF connection.vendor = "oracle" /\ self.of = "JSON"
       THEN [arg EXCEPT !.sql = <<"JSON_QUERY", "(">> \o arg.sql \o <<",", "'$'", ")">>]
       ELSE [arg EXCEPT !.sql = <<"CAST", "(">> \o arg.sql \o <<"AS", db_type, ")">>]

\* Mutant: the pairs are always joined by the node's own join method.
JSONObject_as_sql_joins_pairs(self, connection, function, template, arg_joiner) ==
    IF ~connection.features.has_json_object_function
    THEN Raise("NotSupportedError", 0)
    ELSE Func_as_sql(self, self.src, connection, function, template, "self",
                     <<App(function, self.src, <<>>, <<>>)>>)

\* JSONObject.as_sql
JSONObject_as_sql(self, connection, function, template, arg_joiner) ==
    IF ~connection.features.has_json_object_function
    THEN Raise("NotSupportedError", 0)
    ELSE Func_as_sql(self, self.src, connection, function, template, arg_joiner,
                     <<App(function, self.src, <<>>, <<>>)>>)

\* JSONObject.as_native
JSONObject_as_native(self, connection, returning) ==
    JSONObject_as_sql(self, connection, "JSON_OBJECT",
        IF returning = "JSONB"
        THEN "%(function)s(%(expressions)s RETURNING JSONB)"
        ELSE "%(function)s(%(expressions)s RETURNING CLOB)",
        "self")

\* Mutant: the casts land on the odd positions (the values).
JSONObject_as_postgresql_casts_values(self, connection) ==
    LET copy == [self EXCEPT !.src =
                    [index \in 1..Len(self.src) |->
                        IF (index - 1) % 2 = 1
                        THEN Cast(self.src[index], "Text")
                        ELSE self.src[index]]]
    IN IF connection.features.is_postgresql_16
       THEN JSONObject_as_native(copy, connection, "JSONB")
       ELSE Func_as_sql(copy, copy.src, connection, "JSONB_BUILD_OBJECT",
                        Func_template, Func_arg_joiner,
                        <<App("JSONB_BUILD_OBJECT", copy.src, <<>>, <<>>)>>)

\* JSONObject.as_postgresql
JSONObject_as_postgresql(self, connection) ==
    LET copy == [self EXCEPT !.src =
                    [index \in 1..Len(self.src) |->
                        IF (index - 1) % 2 = 0
                        THEN Cast(self.src[index], "Text")
                        ELSE self.src[index]]]
    IN IF connection.features.is_postgresql_16
       THEN JSONObject_as_native(copy, connection, "JSONB")
       ELSE Func_as_sql(copy, copy.src, connection, "JSONB_BUILD_OBJECT",
                        Func_template, Func_arg_joiner,
                        <<App("JSONB_BUILD_OBJECT", copy.src, <<>>, <<>>)>>)

\* JSONObject.as_oracle
JSONObject_as_oracle(self, connection) ==
    JSONObject_as_native(self, connection, "CLOB")

\* Mutant: each value is appended before its path.
JSONSet_as_sql_value_first(self, connection) ==
    IF ~connection.features.supports_partial_json_update
    THEN Raise("NotSupportedError", 0)
    ELSE
    LET new_source_expressions ==
            self.src \o Flatten(
                [i \in 1..Len(self.fields) |->
                    <<IF IsValue(self.fields[i].value)
                      THEN Cast(self.fields[i].value, OutputField(self))
                      ELSE self.fields[i].value,
                      ValueStr(compile_json_path(Split(self.fields[i].key)))>>])
    IN Func_as_sql(self, new_source_expressions, connection, "JSON_SET",
                   Func_template, Func_arg_joiner,
                   <<App("JSON_SET", new_source_expressions, self.fields, <<>>)>>)

\* JSONSet.as_sql
JSONSet_as_sql(self, connection) ==
    IF ~connection.features.supports_partial_json_update
    THEN Raise("NotSupportedError", 0)
    ELSE
    LET new_source_expressions ==
            self.src \o Flatten(
                [i \in 1..Len(self.fields) |->
                    LET key == self.fields[i].key
                        value == self.fields[i].value
                        key_paths == Split(key)
                        key_paths_join == compile_json_path(key_paths)
                    IN <<ValueStr(key_paths_join),
                         IF IsValue(value) THEN Cast(value, OutputField(self))
                         ELSE value>>])
    IN Func_as_sql(self, new_source_expressions, connection, "JSON_SET",
                   Func_template, Func_arg_joiner,
                   <<App("JSON_SET", new_source_expressions, self.fields, <<>>)>>)

\* Mutant: the TO_JSONB branch is missing.
JSONSet_postgresql_value_wraps_none(self, value) ==
    IF IsValue(value) /\ value.value = "None"
    THEN Value("None", OutputField(self))
    ELSE value

\* JSONSet.as_postgresql, the value handed to JSONB_SET: TO_JSONB around an
\* expression whose output field is not JSON, a None literal retyped with
\* the node's output field, anything else as it is.
JSONSet_postgresql_value(self, value) ==
    IF IsExpression(value) /\ ~IsJSONField(value)
    THEN ToJSONB(value, OutputField(self))
    ELSE IF IsValue(value) /\ value.value = "None"
    THEN Value("None", OutputField(self))
    ELSE value

\* Mutant: the pairs after the first are ignored.
JSONSet_as_postgresql_first_only(self, connection) ==
    IF Len(self.fields) = 0 THEN Raise("IndexError", 0) ELSE
    LET key == self.fields[1].key
        value == self.fields[1].value
        key_paths == Split(key)
        new_source_expressions ==
            self.src \o <<ValueList(key_paths), JSONSet_postgresql_value(self, value)>>
    IN Func_as_sql(self, new_source_expressions, connection, "JSONB_SET",
                   Func_template, Func_arg_joiner,
                   <<App("JSONB_SET", new_source_expressions,
                         <<self.fields[1]>>, <<>>)>>)

\* JSONSet.as_postgresql
JSONSet_as_postgresql(self, connection) ==
    IF Len(self.fields) = 0 THEN Raise("IndexError", 0) ELSE
    LET all_items == self.fields
        key == all_items[1].key
        value == all_items[1].value
        rest == Tail(all_items)
    IN
    IF Len(rest) > 0
    THEN LET copy == [self EXCEPT !.fields = <<all_items[1]>>]
             reduced == JSONSet_init(copy, "None", rest).node
             r == JSONSet_as_postgresql(reduced, connection)
         IN [r EXCEPT !.recursions = @ + 1, !.built = <<reduced>> \o @]
    ELSE
    LET key_paths == Split(key)
        new_source_expressions ==
            self.src \o <<ValueList(key_paths), JSONSet_postgresql_value(self, value)>>
    IN Func_as_sql(self, new_source_expressions, connection, "JSONB_SET",
                   Func_template, Func_arg_joiner,
                   <<App("JSONB_SET", new_source_expressions, self.fields, <<>>)>>)

\* Mutant: the last pair is peeled off first, so pairs apply right to left.
JSONSet_as_oracle_reversed(self, connection) ==
    IF ~connection.features.supports_partial_json_update
    THEN Raise("NotSupportedError", 0)
    ELSE IF Len(self.fields) = 0 THEN Raise("IndexError", 0) ELSE
    LET all_items == self.fields
        last == all_items[Len(all_items)]
        rest == SubSeq(all_items, 1, Len(all_items) - 1)
    IN
    IF Len(rest) > 0
    THEN LET copy == [self EXCEPT !.fields = <<last>>]
             reduced == JSONSet_init(copy, "None", rest).node
             r == JSONSet_as_oracle(reduced, connection)
         IN [r EXCEPT !.recursions = @ + 1, !.built = <<reduced>> \o @]
    ELSE
    LET wrapped == IF IsValue(last.value)
                   THEN ValueExpr(last.value, OutputField(self))
                   ELSE last.value
        new_source_expressions == self.src \o <<wrapped>>
    IN Func_as_sql(self, new_source_expressions, connection, "JSON_TRANSFORM",
                   Func_template, "self",
                   <<App("JSON_TRANSFORM", new_source_expressions, self.fields, <<>>)>>)

\* JSONSet.as_oracle
JSONSet_as_oracle(self, connection) ==
    IF ~connection.features.supports_partial_json_update
    THEN Raise("NotSupportedError", 0)
    ELSE IF Len(self.fields) = 0 THEN Raise("IndexError", 0) ELSE
    LET all_items == self.fields
        key == all_items[1].key
        value == all_items[1].value
        rest == Tail(all_items)
    IN
    IF Len(rest) > 0
    THEN LET copy == [self EXCEPT !.fields = <<all_items[1]>>]
             reduced == JSONSet_init(copy, "None", rest).node
             r == JSONSet_as_oracle(reduced, connection)
         IN [r EXCEPT !.recursions = @ + 1, !.built = <<reduced>> \o @]
    ELSE
    LET wrapped == IF IsValue(value) THEN ValueExpr(value, OutputField(self))
                   ELSE value
        new_source_expressions == self.src \o <<wrapped>>
    IN Func_as_sql(self, new_source_expressions, connection, "JSON_TRANSFORM",
                   Func_template, "self",
                   <<App("JSON_TRANSFORM", new_source_expressions, self.fields, <<>>)>>)

\* JSONRemove.as_sql
JSONRemove_as_sql(self, connection) ==
    IF ~connection.features.supports_partial_json_update
    THEN Raise("NotSupportedError", 0)
    ELSE
    LET new_source_expressions ==
            self.src \o [i \in 1..Len(self.paths) |->
                            ValueStr(compile_json_path(Split(self.paths[i])))]
    IN Func_as_sql(self, new_source_expressions, connection, "JSON_REMOVE",
                   Func_template, Func_arg_joiner,
                   <<App("JSON_REMOVE", new_source_expressions, <<>>, self.paths)>>)

\* Mutant: the last path is peeled off first, so paths apply right to left.
JSONRemove_as_postgresql_reversed(self, connection) ==
    IF Len(self.paths) = 0 THEN Raise("ValueError", 0) ELSE
    LET path == self.paths[Len(self.paths)]
        rest == SubSeq(self.paths, 1, Len(self.paths) - 1)
    IN
    IF Len(rest) > 0
    THEN LET copy == [self EXCEPT !.paths = <<path>>]
             reduced == JSONRemove_init(copy, rest).node
             r == JSONRemove_as_postgresql(reduced, connection)
         IN [r EXCEPT !.recursions = @ + 1, !.built = <<reduced>> \o @]
    ELSE
    LET key_paths == Split(path)
        new_source_expressions == self.src \o <<ValueList(key_paths)>>
    IN Func_as_sql(self, new_source_expressions, connection, "",
                   "%(expressions)s", "#- ",
                   <<App("#-", new_source_expressions, <<>>, self.paths)>>)

\* JSONRemove.as_postgresql
JSONRemove_as_postgresql(self, connection) ==
    IF Len(self.paths) = 0 THEN Raise("ValueError", 0) ELSE
    LET path == self.paths[1]
        rest == Tail(self.paths)
    IN
    IF Len(rest) > 0
    THEN LET copy == [self EXCEPT !.paths = <<path>>]
             reduced == JSONRemove_init(copy, rest).node
             r == JSONRemove_as_postgresql(reduced, connection)
         IN [r EXCEPT !.recursions = @ + 1, !.built = <<reduced>> \o @]
    ELSE
    LET key_paths == Split(path)
        new_source_expressions == self.src \o <<ValueList(key_paths)>>
    IN Func_as_sql(self, new_source_expressions, connection, "",
                   "%(expressions)s", "#- ",
                   <<App("#-", new_source_expressions, <<>>, self.paths)>>)

\* Mutant: the paths after the first are ignored.
JSONRemove_as_oracle_first_only(self, connection) ==
    IF ~connection.features.supports_partial_json_update
    THEN Raise("NotSupportedError", 0)
    ELSE IF Len(self.paths) = 0 THEN Raise("ValueError", 0)
    ELSE LET only == [self EXCEPT !.paths = <<self.paths[1]>>] IN
         Func_as_sql(only, only.src, connection, "JSON_TRANSFORM",
                     Func_template, "self",
                     <<App("JSON_TRANSFORM", only.src, <<>>, only.paths)>>)

\* JSONRemove.as_oracle
JSONRemove_as_oracle(self, connection) ==
    IF ~connection.features.supports_partial_json_update
    THEN Raise("NotSupportedError", 0)
    ELSE IF Len(self.paths) = 0 THEN Raise("ValueError", 0) ELSE
    LET path == self.paths[1]
        rest == Tail(self.paths)
    IN
    IF Len(rest) > 0
    THEN LET copy == [self EXCEPT !.paths = <<path>>]
             reduced == JSONRemove_init(copy, rest).node
             r == JSONRemove_as_oracle(reduced, connection)
         IN [r EXCEPT !.recursions = @ + 1, !.built = <<reduced>> \o @]
    ELSE Func_as_sql(self, self.src, connection, "JSON_TRANSFORM",
                     Func_template, "self",
                     <<App("JSON_TRANSFORM", self.src, <<>>, self.paths)>>)

\* compiler.compile(node): the method as_<vendor> when the node's class has
\* one, as_sql otherwise.
compile(node, connection) ==
    LET vendor == connection.vendor IN
    CASE node.type = "Col" -> Res("ok", <<node.name>>, <<>>, <<>>, 0)
      [] node.type = "Value" -> Value_as_sql(node)
      [] node.type = "Cast" -> Cast_as_sql(node, connection)
      [] node.type = "ToJSONB" ->
            Func_as_sql(node, <<node.arg>>, connection, "TO_JSONB",
                        Func_template, Func_arg_joiner, <<>>)
      [] node.type = "JSONObject" ->
            IF vendor = "postgresql" THEN JSONObject_as_postgresql(node, connection)
            ELSE IF vendor = "oracle" THEN JSONObject_as_oracle(node, connection)
            ELSE JSONObject_as_sql(node, connection, "JSON_OBJECT",
                                   Func_template, Func_arg_joiner)
      [] node.type = "JSONSet" ->
            IF vendor = "postgresql" THEN JSONSet_as_postgresql(node, connection)
            ELSE IF vendor = "oracle" THEN JSONSet_as_oracle(node, connection)
            ELSE JSONSet_as_sql(node, connection)
      [] node.type = "JSONRemove" ->
            IF vendor = "postgresql" THEN JSONRemove_as_postgresql(node, connection)
            ELSE IF vendor = "oracle" THEN JSONRemove_as_oracle(node, connection)
            ELSE JSONRemove_as_sql(node, connection)
      [] OTHER -> Raise("AttributeError", 0)

(* ------------------ what a compilation writes to --------------------- *)

\* The objects a compilation method can write to, by reference: "self", the
\* node it is called on, and "copy", the object self.copy() returns.
HeapOf(self) == [o \in {"self"} |-> self]

\* Func.copy(): a new object with the attributes of the old one and a list
\* of source expressions of its own.
Func_copy(heap, from, to) ==
    [o \in DOMAIN heap \cup {to} |-> IF o = to THEN heap[from] ELSE heap[o]]

\* Mutant: the method works on the node itself (copy = self).
JSONSet_as_sql_effect_in_place(self, connection) ==
    IF ~connection.features.supports_partial_json_update THEN self
    ELSE
    LET heap == HeapOf(self)
        new_source_expressions ==
            heap["self"].src \o Flatten(
                [i \in 1..Len(self.fields) |->
                    <<ValueStr(compile_json_path(Split(self.fields[i].key))),
                      IF IsValue(self.fields[i].value)
                      THEN Cast(self.fields[i].value, OutputField(self))
                      ELSE self.fields[i].value>>])
        written == [heap EXCEPT !["self"].src = new_source_expressions]
    IN written["self"]

\* JSONSet.as_sql, the node after the call: the path and value expressions
\* are appended to the copy's source expressions.
JSONSet_as_sql_effect(self, connection) ==
    IF ~connection.features.supports_partial_json_update THEN self
    ELSE
    LET heap == Func_copy(HeapOf(self), "self", "copy")
        new_source_expressions ==
            heap["copy"].src \o Flatten(
                [i \in 1..Len(self.fields) |->
                    <<ValueStr(compile_json_path(Split(self.fields[i].key))),
                      IF IsValue(self.fields[i].value)
                      THEN Cast(self.fields[i].value, OutputField(self))
                      ELSE self.fields[i].value>>])
        written == [heap EXCEPT !["copy"].src = new_source_expressions]
    IN written["self"]

\* JSONSet.as_postgresql, the node after the call: with several pairs the
\* copy's fields are cut down to the first pair, with one pair the path and
\* the value are appended to the copy's source expressions.
JSONSet_as_postgresql_effect(self, connection) ==
    LET heap == Func_copy(HeapOf(self), "self", "copy") IN
    IF Len(self.fields) = 0 THEN heap["self"]
    ELSE IF Len(self.fields) > 1
    THEN LET written == [heap EXCEPT !["copy"].fields = <<self.fields[1]>>]
         IN written["self"]
    ELSE LET written ==
                [heap EXCEPT !["copy"].src =
                    @ \o <<ValueList(Split(self.fields[1].key)),
                           JSONSet_postgresql_value(self, self.fields[1].value)>>]
         IN written["self"]

\* JSONSet.as_oracle, the node after the call.
JSONSet_as_oracle_effect(self, connection) ==
    IF ~connection.features.supports_partial_json_update THEN self
    ELSE
    LET heap == Func_copy(HeapOf(self), "self", "copy") IN
    IF Len(self.fields) = 0 THEN heap["self"]
    ELSE IF Len(self.fields) > 1
    THEN LET written == [heap EXCEPT !["copy"].fields = <<self.fields[1]>>]
         IN written["self"]
    ELSE LET value == self.fields[1].value
             written ==
                [heap EXCEPT !["copy"].src =
                    @ \o <<IF IsValue(value)
                           THEN ValueExpr(value, OutputField(self))
                           ELSE value>>]
         IN written["self"]

\* JSONRemove.as_sql, the node after the call.
JSONRemove_as_sql_effect(self, connection) ==
    IF ~connection.features.supports_partial_json_update THEN self
    ELSE
    LET heap == Func_copy(HeapOf(self), "self", "copy")
        written ==
            [heap EXCEPT !["copy"].src =
                @ \o [i \in 1..Len(self.paths) |->
                        ValueStr(compile_json_path(Split(self.paths[i])))]]
    IN written["self"]

\* JSONRemove.as_postgresql, the node after the call.
JSONRemove_as_postgresql_effect(self, connection) ==
    LET heap == Func_copy(HeapOf(self), "self", "copy") IN
    IF Len(self.paths) = 0 THEN heap["self"]
    ELSE IF Len(self.paths) > 1
    THEN LET written == [heap EXCEPT !["copy"].paths = <<self.paths[1]>>]
         IN written["self"]
    ELSE LET written ==
                [heap EXCEPT !["copy"].src = @ \o <<ValueList(Split(self.paths[1]))>>]
         IN written["self"]

\* JSONRemove.as_oracle, the node after the call.
JSONRemove_as_oracle_effect(self, connection) ==
    IF ~connection.features.supports_partial_json_update THEN self
    ELSE
    LET heap == Func_copy(HeapOf(self), "self", "copy") IN
    IF Len(self.paths) > 1
    THEN LET written == [heap EXCEPT !["copy"].paths = <<self.paths[1]>>]
         IN written["self"]
    ELSE heap["self"]

\* JSONObject.as_postgresql, the node after the call: the copy's key
\* expressions are replaced by casts to text.
JSONObject_as_postgresql_effect(self, connection) ==
    LET heap == Func_copy(HeapOf(self), "self", "copy")
        written ==
            [heap EXCEPT !["copy"].src =
                [index \in 1..Len(@) |->
                    IF (index - 1) % 2 = 0 THEN Cast(@[index], "Text") ELSE @[index]]]
    IN written["self"]

\* The node after compiler.compile(node).  JSONObject.as_sql, as_native and
\* as_oracle make no copy and assign nothing.
compile_effect(node, connection) ==
    LET vendor == connection.vendor IN
    CASE node.type = "JSONSet" ->
            IF vendor = "postgresql" THEN JSONSet_as_postgresql_effect(node, connection)
            ELSE IF vendor = "oracle" THEN JSONSet_as_oracle_effect(node, connection)
            ELSE JSONSet_as_sql_effect(node, connection)
      [] node.type = "JSONRemove" ->
            IF vendor = "postgresql" THEN JSONRemove_as_postgresql_effect(node, connection)
            ELSE IF vendor = "oracle" THEN JSONRemove_as_oracle_effect(node, connection)
            ELSE JSONRemove_as_sql_effect(node, connection)
      [] node.type = "JSONObject" ->
            IF vendor = "postgresql" THEN JSONObject_as_postgresql_effect(node, connection)
            ELSE node
      [] OTHER -> node

\* How many times one node is compiled.
MaxCompiles == 2

(* --------------------------- the state machine ------------------------ *)

VARIABLES
    connection,  \* the database connection queries are compiled for
    call,        \* the constructor call made last: class and argument count
    raised,      \* the exception that call raised, "" if none
    node,        \* the node that call created, NoNode if none
    resolved,    \* whether node is the result of resolve_expression
    out,         \* the result of compiling node, NoOut before compilation
    compiles     \* how many times node has been compiled

\* A call of a function wrapped by retry (tasks/utils.py).
VARIABLES
    r_pc,        \* where the wrapper is: idle, calling, sleeping, returned, raised
    r_given,     \* whether retries was passed to the decorator
    r_retries,   \* the decorator's retries
    r_attempt,   \* the loop variable of inner_wrapper
    r_calls,     \* how often the wrapped function has been called
    r_sleeps,    \* how often time.sleep has been called
    r_log,       \* what each call of the wrapped function did, in order
    r_result,    \* what the wrapper returned
    r_exc        \* the exception the wrapper let through, "" if none

\* A DummyBackend and the transaction around its caller (tasks/backends/dummy.py).
VARIABLES
    d_results,   \* self.results
    d_in_tx,     \* whether the caller is inside an atomic block
    d_pending,   \* the results whose store step waits for the commit
    d_clock,     \* the last time timezone.now() gave
    d_next,      \* the id the next result gets
    d_signals,   \* how often task_enqueued has been sent
    d_stored,    \* the ids whose store step has run, in the order they ran
    d_dropped,   \* the ids whose store step a rollback discarded
    d_last       \* the operation made last and what it gave

jsonVars == <<connection, call, raised, node, resolved, out, compiles>>
retryVars ==
    <<r_pc, r_given, r_retries, r_attempt, r_calls, r_sleeps, r_log, r_result, r_exc>>
dummyVars ==
    <<d_results, d_in_tx, d_pending, d_clock, d_next, d_signals, d_stored,
      d_dropped, d_last>>

vars == <<jsonVars, retryVars, dummyVars>>

\* The default of retry's retries parameter.
DefaultRetries == 3

\* enqueued_at of a result that has not been stored (None).
NoTime == 0

NoOp == [op |-> "", id |-> 0, setting |-> "", status |-> "", enqueued_at |-> NoTime]

\* No wrapped function is being called.
RetryAtRest ==
    /\ r_pc = "idle"
    /\ r_given = FALSE
    /\ r_retries = DefaultRetries
    /\ r_attempt = 0
    /\ r_calls = 0
    /\ r_sleeps = 0
    /\ r_log = <<>>
    /\ r_result = ""
    /\ r_exc = ""

\* DummyBackend.__init__, outside any transaction.
DummyAtRest ==
    /\ d_results = <<>>
    /\ d_in_tx = FALSE
    /\ d_pending = <<>>
    /\ d_clock = 0
    /\ d_next = 1
    /\ d_signals = 0
    /\ d_stored = <<>>
    /\ d_dropped = {}
    /\ d_last = NoOp

\* args holds the mapping (JSONObject, JSONSet) or the paths (JSONRemove)
\* the constructor was given.
NoCall == [class |-> "", n |-> 0, args |-> <<>>]
NoOut == Res("none", <<>>, <<>>, <<>>, 0)

\* Arguments offered to the constructors.
Targets == {F("data"), F("notes")}
OutputFieldArgs == {"None", "JSON"}
FieldValues == {Raw("None"), Raw("1"), F("data"), F("qty")}
Mappings ==
    {ps \in SeqsOf([key : Keys, value : FieldValues], 0, MaxPairs) : IsMapping(ps)}
PathLists == SeqsOf(Keys, 0, MaxPairs)

Idle == call = NoCall

\* No node has been constructed.
JsonAtRest ==
    /\ call = NoCall
    /\ raised = ""
    /\ node = NoNode
    /\ resolved = FALSE
    /\ out = NoOut
    /\ compiles = 0

Init ==
    /\ connection \in Connections
    /\ JsonAtRest
    /\ RetryAtRest
    /\ DummyAtRest

Constructed(class, args, r) ==
    /\ call' = [class |-> class, n |-> Len(args), args |-> args]
    /\ raised' = r.raised
    /\ node' = r.node
    /\ resolved' = FALSE
    /\ out' = NoOut
    /\ compiles' = 0
    /\ UNCHANGED <<connection, retryVars, dummyVars>>

\* JSONObject(**fields)
NewJSONObject ==
    /\ Idle
    /\ \E fields \in Mappings :
        Constructed("JSONObject", fields, JSONObject_init(fields))

\* JSONSet(expression, output_field=..., **fields)
NewJSONSet ==
    /\ Idle
    /\ \E expression \in Targets, output_field \in OutputFieldArgs, fields \in Mappings :
        Constructed("JSONSet", fields,
                    JSONSet_init(expression, output_field, fields))

\* JSONRemove(expression, *paths)
NewJSONRemove ==
    /\ Idle
    /\ \E expression \in Targets, paths \in PathLists :
        Constructed("JSONRemove", paths, JSONRemove_init(expression, paths))

\* node.resolve_expression(query): the query binds the node to its model.
Resolve ==
    /\ node # NoNode
    /\ ~resolved
    /\ node' = resolve_expression(node)
    /\ resolved' = TRUE
    /\ UNCHANGED <<connection, call, raised, out, compiles>>
    /\ UNCHANGED <<retryVars, dummyVars>>

\* compiler.compile(node) for the connection's vendor; a node may be
\* compiled again.
Compile ==
    /\ node # NoNode
    /\ resolved
    /\ compiles < MaxCompiles
    /\ out' = compile(node, connection)
    /\ node' = compile_effect(node, connection)
    /\ compiles' = compiles + 1
    /\ UNCHANGED <<connection, call, raised, resolved>>
    /\ UNCHANGED <<retryVars, dummyVars>>

\* The caller drops the node (or handles the constructor's exception).
Discard ==
    /\ ~Idle
    /\ call' = NoCall
    /\ raised' = ""
    /\ node' = NoNode
    /\ resolved' = FALSE
    /\ out' = NoOut
    /\ compiles' = 0
    /\ UNCHANGED <<connection, retryVars, dummyVars>>

Next ==
    \/ NewJSONObject
    \/ NewJSONSet
    \/ NewJSONRemove
    \/ Resolve
    \/ Compile
    \/ Discard

Spec == Init /\ [][Next]_vars

(* ----------------------- measuring the SQL text ----------------------- *)

\* How often token t occurs in sql.
CountTok(sql, t) == Cardinality({i \in 1..Len(sql) : sql[i] = t})

\* The largest number of calls of function fn that are open at once in sql.
RECURSIVE DepthScan(_, _, _, _, _)
DepthScan(sql, i, stack, fn, best) ==
    IF i > Len(sql) THEN best
    ELSE IF sql[i] = "("
    THEN LET st == Append(stack, i > 1 /\ sql[i - 1] = fn)
             d == Cardinality({k \in 1..Len(st) : st[k]})
         IN DepthScan(sql, i + 1, st, fn, IF d > best THEN d ELSE best)
    ELSE IF sql[i] = ")"
    THEN DepthScan(sql, i + 1, SubSeq(stack, 1, Len(stack) - 1), fn, best)
    ELSE DepthScan(sql, i + 1, stack, fn, best)

NestDepth(sql, fn) == DepthScan(sql, 1, <<>>, fn, 0)

\* The native single-path function of a dialect.
SetFunction == IF connection.vendor = "postgresql" THEN "JSONB_SET" ELSE "JSON_TRANSFORM"

\* The cases the claims are about.
Compiled == out.status # "none"
SetCompiled == node.type = "JSONSet" /\ Compiled
RemoveCompiled == node.type = "JSONRemove" /\ Compiled
ObjectCompiled == node.type = "JSONObject" /\ Compiled
SinglePathDialect == connection.vendor \in {"postgresql", "oracle"}

(* ------------------------------- claims ------------------------------- *)

\* C1: compiling a JSONSet node for a backend whose
\* supports_partial_json_update flag is false raises NotSupportedError at
\* once, with no recursive call made and no SQL produced, on the default,
\* the PostgreSQL and the Oracle path.
C1_SetWithoutFlagRaises ==
    (SetCompiled /\ ~connection.features.supports_partial_json_update)
        => /\ out.status = "NotSupportedError"
           /\ out.recursions = 0
           /\ Len(out.built) = 0
           /\ Len(out.sql) = 0

\* C2: compiling a JSONRemove node for a backend whose
\* supports_partial_json_update flag is false raises NotSupportedError and
\* emits no SQL, on the default, the PostgreSQL and the Oracle path.
C2_RemoveWithoutFlagRaises ==
    (RemoveCompiled /\ ~connection.features.supports_partial_json_update)
        => /\ out.status = "NotSupportedError"
           /\ Len(out.sql) = 0

\* C3: compiling a JSONObject node for a backend whose
\* has_json_object_function flag is false raises NotSupportedError and
\* emits no SQL, on the default path, the Oracle path and both PostgreSQL
\* paths.
C3_ObjectWithoutFlagRaises ==
    (ObjectCompiled /\ ~connection.features.has_json_object_function)
        => /\ out.status = "NotSupportedError"
           /\ Len(out.sql) = 0

\* C4: JSONSet with an empty mapping and JSONRemove with no paths raise
\* TypeError in the constructor and create no node; so every JSONSet node,
\* the ones built while compiling included, has at least one pair and
\* every JSONRemove node at least one path.
NonEmptyNode(n) ==
    /\ n.type = "JSONSet" => Len(n.fields) >= 1
    /\ n.type = "JSONRemove" => Len(n.paths) >= 1

C4_EmptyConstructionFails ==
    /\ (call.class \in {"JSONSet", "JSONRemove"} /\ call.n = 0)
            => (raised = "TypeError" /\ node = NoNode)
    /\ NonEmptyNode(node)
    /\ \A i \in 1..Len(out.built) : NonEmptyNode(out.built[i])
    /\ \A i \in 1..Len(out.apps) :
            \A j \in 1..Len(out.apps[i].exprs) : NonEmptyNode(out.apps[i].exprs[j])

C4_Witness ==
    call.class = "JSONSet" /\ call.n = 0 /\ raised = "TypeError"

\* C5: a JSONSet node with N >= 1 pairs compiled for PostgreSQL or Oracle
\* yields exactly N applications of the native function, nested N-1 deep,
\* each with exactly one pair, and each pair of the mapping in exactly one
\* application.
C5_SetOneApplicationPerPair ==
    (SetCompiled /\ SinglePathDialect /\ out.status = "ok") =>
        LET N == Len(node.fields) IN
        /\ Len(out.apps) = N
        /\ CountTok(out.sql, SetFunction) = N
        /\ NestDepth(out.sql, SetFunction) - 1 = N - 1
        /\ out.recursions = N - 1
        /\ \A i \in 1..N :
            /\ out.apps[i].function = SetFunction
            /\ Len(out.apps[i].fields) = 1
        /\ \A j \in 1..N :
            Cardinality({i \in 1..N : out.apps[i].fields[1] = node.fields[j]}) = 1

C5_Witness ==
    /\ SetCompiled /\ out.status = "ok"
    /\ connection.vendor = "postgresql"
    /\ Len(node.fields) >= 3

\* C6: a JSONRemove node with N >= 1 paths compiled for PostgreSQL or
\* Oracle yields exactly N single-path removals nested N-1 deep, one per
\* listed path with duplicates counted, the recursion ending when one path
\* is left.
RemoveToken == IF connection.vendor = "postgresql" THEN "#-" ELSE "REMOVE"

C6_RemoveOneApplicationPerPath ==
    (RemoveCompiled /\ SinglePathDialect /\ out.status = "ok") =>
        LET N == Len(node.paths) IN
        /\ Len(out.apps) = N
        /\ CountTok(out.sql, RemoveToken) = N
        /\ out.recursions = N - 1
        /\ connection.vendor = "oracle"
                => NestDepth(out.sql, "JSON_TRANSFORM") - 1 = N - 1
        /\ \A i \in 1..N : Len(out.apps[i].paths) = 1
        /\ \A i \in 2..N : out.apps[i].exprs[1].type = "JSONRemove"
        /\ out.apps[1].exprs[1] = node.src[1]
        /\ \A p \in Keys :
            Cardinality({i \in 1..N : out.apps[i].paths[1] = p})
                = Cardinality({j \in 1..N : node.paths[j] = p})

C6_Witness ==
    /\ RemoveCompiled /\ out.status = "ok"
    /\ connection.vendor = "oracle"
    /\ Len(node.paths) >= 3
    /\ node.paths[1] = node.paths[3]

\* C7: on PostgreSQL and Oracle the pairs (k1,v1)..(kN,vN) of a JSONSet
\* node are applied left to right: the application for (k1,v1) is the
\* innermost and its target is the node's own target expression, the
\* application for (ki,vi), i > 1, has as target the compiled application
\* for (k(i-1),v(i-1)), and the outermost application is the one for
\* (kN,vN).
C7_SetAppliesLeftToRight ==
    (SetCompiled /\ SinglePathDialect /\ out.status = "ok") =>
        LET N == Len(node.fields)
            target(i) == out.apps[i].exprs[1]
            application(i) ==
                IF i = N THEN out ELSE compile(target(i + 1), connection)
        IN
        /\ Len(out.apps) = N
        /\ target(1) = node.src[1]
        /\ \A i \in 1..N : out.apps[i].fields = <<node.fields[i]>>
        /\ \A i \in 2..N :
            /\ target(i).type = "JSONSet"
            /\ target(i).fields = <<node.fields[i - 1]>>
        /\ \A i \in 1..N :
            LET inner == compile(target(i), connection) IN
            /\ application(i).status = "ok"
            /\ application(i).sql[1] = SetFunction
            /\ SubSeq(application(i).sql, 3, 2 + Len(inner.sql)) = inner.sql
            /\ application(i).apps = SubSeq(out.apps, 1, i)

C7_Witness ==
    /\ SetCompiled /\ out.status = "ok"
    /\ connection.vendor = "oracle"
    /\ Len(node.fields) >= 3

\* C8: on PostgreSQL the paths p1..pN, N >= 2, of a JSONRemove node are
\* removed in listing order: the single-path node for p1 is the target of
\* the next application, p1 is removed by the innermost application and pN
\* by the outermost.
C8_RemoveAppliesLeftToRight ==
    (RemoveCompiled /\ connection.vendor = "postgresql" /\ out.status = "ok"
        /\ Len(node.paths) >= 2) =>
        LET N == Len(node.paths) IN
        /\ Len(out.apps) = N
        /\ out.apps[1].exprs[1] = node.src[1]
        /\ \A i \in 1..N : out.apps[i].paths = <<node.paths[i]>>
        /\ \A i \in 2..N :
            /\ out.apps[i].exprs[1].type = "JSONRemove"
            /\ out.apps[i].exprs[1].paths = <<node.paths[i - 1]>>
        /\ out.sql = compile(node.src[1], connection).sql
                        \o Flatten([i \in 1..N |-> <<"#-", "%s">>])
        /\ out.params = [i \in 1..N |-> Param("list", "", <<>>, Split(node.paths[i]))]

C8_Witness ==
    /\ RemoveCompiled /\ out.status = "ok"
    /\ connection.vendor = "postgresql"
    /\ Len(node.paths) >= 3
    /\ node.paths[1] # node.paths[2]
    /\ node.paths[2] # node.paths[3]

\* C9: when a resolved JSONSet node holds a literal None for some key and is
\* compiled for PostgreSQL, the value argument of that key's JSONB_SET
\* application is a None literal typed with the JSON output field: it is
\* sent as the JSON text null, never as the SQL keyword NULL and never inside
\* TO_JSONB, wherever the key stands in the mapping.
IsNoneLiteral(v) == IsValue(v) /\ v.value = "None"

C9_NoneIsTypedJSONNull ==
    (SetCompiled /\ resolved /\ connection.vendor = "postgresql"
        /\ out.status = "ok") =>
        \A i \in 1..Len(node.fields) :
            IsNoneLiteral(node.fields[i].value) =>
                \E a \in 1..Len(out.apps) :
                    LET arg == out.apps[a].exprs[3]
                        sent == compile(arg, connection)
                    IN
                    /\ out.apps[a].fields[1].key = node.fields[i].key
                    /\ out.apps[a].function = "JSONB_SET"
                    /\ arg.type = "Value"
                    /\ arg.value = "None"
                    /\ arg.of = "JSON"
                    /\ sent.sql = <<"%s">>
                    /\ sent.params = <<Param("json", "null", <<>>, <<>>)>>
                    /\ CountTok(out.sql, "NULL") = 0

\* C10: on PostgreSQL JSONSet wraps a value in TO_JSONB exactly when the
\* value is an expression whose output field is not a JSON field; a value
\* whose output field is JSON reaches JSONB_SET without TO_JSONB.
NeedsToJSONB(v) == IsExpression(v) /\ ~IsJSONField(v)

C10_ToJSONBExactlyForNonJSON ==
    (SetCompiled /\ connection.vendor = "postgresql" /\ out.status = "ok") =>
        LET N == Len(node.fields) IN
        /\ Len(out.apps) = N
        /\ \A i \in 1..N :
            \E a \in 1..N :
                LET v == node.fields[i].value
                    arg == out.apps[a].exprs[3]
                IN
                /\ out.apps[a].fields[1].key = node.fields[i].key
                /\ (arg.type = "ToJSONB") <=> NeedsToJSONB(v)
                /\ NeedsToJSONB(v) => arg.arg = v
                /\ ~NeedsToJSONB(v) => arg = v
        /\ CountTok(out.sql, "TO_JSONB")
                = Cardinality({i \in 1..N : NeedsToJSONB(node.fields[i].value)})

C10_Witness ==
    /\ SetCompiled /\ out.status = "ok"
    /\ connection.vendor = "postgresql"
    /\ \E i, j \in 1..Len(node.fields) :
        /\ node.fields[i].value = Col("qty")
        /\ node.fields[j].value = Col("data")

\* C11: on PostgreSQL a non-null literal value given to JSONSet is wrapped
\* in a cast expression (cast to the JSON binary type) before it reaches
\* JSONB_SET.
IsLiteral(v) == IsValue(v) /\ v.kind = "py" /\ v.value # "None"

C11_LiteralIsCastOnPostgreSQL ==
    (SetCompiled /\ connection.vendor = "postgresql" /\ out.status = "ok") =>
        \A a \in 1..Len(out.apps) :
            IsLiteral(out.apps[a].fields[1].value) =>
                /\ out.apps[a].exprs[3].type = "Cast"
                /\ CountTok(compile(out.apps[a].exprs[3], connection).sql, "::") = 1

\* C12: a JSONObject node built from K pairs has exactly 2K children, the
\* i-th key literal directly before the i-th value, in the order of the
\* mapping; every dialect compiles exactly these 2K children in this order,
\* and on PostgreSQL only the key children are replaced by casts to text.
ObjectChild(i) ==
    LET pair == call.args[(i + 1) \div 2]
        built == IF i % 2 = 1 THEN ValueStr(pair.key) ELSE ParseExpression(pair.value)
    IN IF resolved THEN ResolveLeaf(built) ELSE built

C12_ObjectChildrenArePairs ==
    node.type = "JSONObject" =>
        LET K == Len(call.args) IN
        /\ Len(node.src) = 2 * K
        /\ \A i \in 1..(2 * K) : node.src[i] = ObjectChild(i)
        /\ out.status = "ok" =>
            /\ Len(out.apps) = 1
            /\ Len(out.apps[1].exprs) = 2 * K
            /\ \A i \in 1..(2 * K) :
                out.apps[1].exprs[i] =
                    IF connection.vendor = "postgresql" /\ i % 2 = 1
                    THEN Cast(node.src[i], "Text")
                    ELSE node.src[i]
            /\ Len(out.params) + CountTok(out.sql, "NULL") + CountTok(out.sql, "data")
                    + CountTok(out.sql, "qty") = 2 * K

C12_Witness ==
    /\ ObjectCompiled /\ out.status = "ok"
    /\ connection.vendor = "postgresql"
    /\ Len(call.args) >= 3

\* C13 as stated: on the default dialect JSONObject renders every pair as
\* "(key) VALUE value" inside one JSON_OBJECT call.
C13_DefaultRendersValuePairs ==
    (ObjectCompiled /\ connection.vendor = "sqlite" /\ out.status = "ok") =>
        /\ CountTok(out.sql, "JSON_OBJECT") = 1
        /\ CountTok(out.sql, "VALUE") = Len(call.args)

\* C13 as amended: on the default dialect JSONObject emits one JSON_OBJECT
\* call whose arguments are the keys and values, comma-separated, in pair
\* order; the "(key) VALUE value" rendering belongs to the native paths
\* (Oracle, PostgreSQL 16 and later), which end in a RETURNING clause.
C13_DefaultIsFlatCall ==
    (ObjectCompiled /\ out.status = "ok") =>
        LET K == Len(call.args)
            args == [i \in 1..(2 * K) |-> compile(out.apps[1].exprs[i], connection).sql]
            native == \/ connection.vendor = "oracle"
                      \/ connection.vendor = "postgresql"
                            /\ connection.features.is_postgresql_16
        IN
        /\ connection.vendor = "sqlite" =>
            /\ out.sql = <<"JSON_OBJECT", "(">> \o JoinWith(",", args) \o <<")">>
            /\ CountTok(out.sql, "VALUE") = 0
            /\ CountTok(out.sql, "RETURNING") = 0
        /\ native =>
            /\ out.sql[1] = "JSON_OBJECT"
            /\ CountTok(out.sql, "VALUE") = K
            /\ CountTok(out.sql, "RETURNING") = 1

C13_Witness ==
    /\ ObjectCompiled /\ out.status = "ok"
    /\ connection.vendor = "sqlite"
    /\ Len(call.args) >= 2

\* C14: on the default dialect with partial-update support a JSONSet node
\* with K pairs compiles to exactly one JSON_SET call with 1 + 2K arguments
\* and no nesting: the target first, then for each pair in order the
\* compiled path literal directly followed by that pair's value.
C14_DefaultSetIsOneCall ==
    (SetCompiled /\ connection.vendor = "sqlite"
        /\ connection.features.supports_partial_json_update) =>
        LET K == Len(node.fields)
            exprs == out.apps[1].exprs
            args == [i \in 1..(1 + 2 * K) |-> compile(exprs[i], connection).sql]
        IN
        /\ out.status = "ok"
        /\ out.recursions = 0
        /\ Len(out.apps) = 1
        /\ Len(exprs) = 1 + 2 * K
        /\ exprs[1] = node.src[1]
        /\ \A i \in 1..K :
            /\ exprs[2 * i] = ValueStr(compile_json_path(Split(node.fields[i].key)))
            /\ exprs[2 * i + 1] \in
                    {node.fields[i].value, Cast(node.fields[i].value, OutputField(node))}
        /\ CountTok(out.sql, "JSON_SET") = 1
        /\ out.sql = <<"JSON_SET", "(">> \o JoinWith(",", args) \o <<")">>

C14_Witness ==
    /\ SetCompiled /\ out.status = "ok"
    /\ connection.vendor = "sqlite"
    /\ Len(node.fields) >= 3

\* C15: compiling never changes the node it is called on: a call of as_sql,
\* as_postgresql or as_oracle, raising or not, leaves the node's children
\* and its fields or paths as they were, and compiling the node again for
\* the same dialect gives the same result.
C15_CompileLeavesNodeUnchanged ==
    [][(compiles' = compiles + 1) =>
            /\ node' = node
            /\ compiles >= 1 => out' = out]_vars

C15_Witness ==
    /\ SetCompiled /\ out.status = "ok"
    /\ connection.vendor = "sqlite"
    /\ compiles >= 2

(* ------------------------- retry (tasks/utils.py) --------------------- *)

\* The largest retries passed to the decorator.
MaxRetries == 3

\* What one call of the wrapped function does: it returns a value or
\* raises an exception.
Returns == {"True", "False", "None"}
Exceptions == {"ValueError", "SystemExit", "KeyboardInterrupt"}
Outcomes ==
    [kind : {"return"}, value : Returns] \cup [kind : {"raise"}, value : Exceptions]

\* Mutant: the loop body runs at least once.
retry_range_at_least_once(retries) == 1..(IF retries < 1 THEN 1 ELSE retries)

\* range(1, retries + 1)
retry_range(retries) == 1..retries

\* Mutant: the final error is raised one attempt early.
retry_except_one_early(exc, attempt, retries) ==
    IF exc = "KeyboardInterrupt"
    THEN "raise"
    ELSE IF attempt + 1 >= retries THEN "raise" ELSE "sleep"

\* Mutant: KeyboardInterrupt is handled like every other exception.
retry_except_no_interrupt(exc, attempt, retries) ==
    IF attempt = retries THEN "raise" ELSE "sleep"

\* The except clauses of inner_wrapper.
retry_except(exc, attempt, retries) ==
    IF exc = "KeyboardInterrupt"
    THEN "raise"
    ELSE IF attempt = retries THEN "raise" ELSE "sleep"

\* The for statement takes the next value of range(1, retries + 1); when
\* there is none the loop ends and inner_wrapper returns None.
RetryLoop(next) ==
    IF next \in retry_range(r_retries')
    THEN /\ r_attempt' = next
         /\ r_pc' = "calling"
         /\ r_result' = ""
    ELSE /\ r_attempt' = r_attempt
         /\ r_pc' = "returned"
         /\ r_result' = "None"

\* The wrapped function is called: retry(retries=R)(f)(), or retry()(f)().
RetryCall ==
    /\ r_pc = "idle"
    /\ \E given \in BOOLEAN :
        \E R \in (IF given THEN (0 - 1)..MaxRetries ELSE {DefaultRetries}) :
            /\ r_given' = given
            /\ r_retries' = R
            /\ RetryLoop(1)
    /\ UNCHANGED <<r_calls, r_sleeps, r_log, r_exc>>
    /\ UNCHANGED <<jsonVars, dummyVars>>

\* One pass through the try statement: f(*args, **kwargs) returns or raises.
RetryAttempt ==
    /\ r_pc = "calling"
    /\ \E o \in Outcomes :
        /\ r_calls' = r_calls + 1
        /\ r_log' = Append(r_log, o)
        /\ IF o.kind = "return"
           THEN /\ r_pc' = "returned"
                /\ r_result' = o.value
                /\ r_exc' = ""
           ELSE /\ r_result' = ""
                /\ IF retry_except(o.value, r_attempt, r_retries) = "raise"
                   THEN /\ r_pc' = "raised"
                        /\ r_exc' = o.value
                   ELSE /\ r_pc' = "sleeping"
                        /\ r_exc' = ""
    /\ UNCHANGED <<r_given, r_retries, r_attempt, r_sleeps>>
    /\ UNCHANGED <<jsonVars, dummyVars>>

\* time.sleep(backoff_delay), then the next iteration of the loop.
RetrySleep ==
    /\ r_pc = "sleeping"
    /\ r_sleeps' = r_sleeps + 1
    /\ UNCHANGED <<r_given, r_retries>>
    /\ RetryLoop(r_attempt + 1)
    /\ UNCHANGED <<r_calls, r_log, r_exc>>
    /\ UNCHANGED <<jsonVars, dummyVars>>

\* The caller has the wrapper's result or exception.
RetryDone ==
    /\ r_pc \in {"returned", "raised"}
    /\ r_pc' = "idle"
    /\ r_given' = FALSE
    /\ r_retries' = DefaultRetries
    /\ r_attempt' = 0
    /\ r_calls' = 0
    /\ r_sleeps' = 0
    /\ r_log' = <<>>
    /\ r_result' = ""
    /\ r_exc' = ""
    /\ UNCHANGED <<jsonVars, dummyVars>>

AnyConnection == CHOOSE c \in Connections : TRUE

InitRetry ==
    /\ connection = AnyConnection
    /\ JsonAtRest
    /\ RetryAtRest
    /\ DummyAtRest

NextRetry ==
    \/ RetryCall
    \/ RetryAttempt
    \/ RetrySleep
    \/ RetryDone

SpecRetry == InitRetry /\ [][NextRetry]_vars

RetryFinished == r_pc \in {"returned", "raised"}
Raised(i) == r_log[i].kind = "raise"
AllRaised == \A i \in 1..Len(r_log) : Raised(i)

\* C16 as stated: for retries >= 1 the function is called until its first
\* successful attempt or until R attempts were made: when every attempt
\* raises it is called exactly R times (3 by default) and the last error
\* propagates; when an attempt succeeds its value is returned unchanged and
\* no further attempt is made.
C16_CalledUntilSuccessOrRTimes ==
    (RetryFinished /\ r_retries >= 1) =>
        /\ ~r_given => r_retries = 3
        /\ r_calls = Len(r_log)
        /\ AllRaised =>
            /\ r_calls = r_retries
            /\ r_pc = "raised"
            /\ r_exc = r_log[r_calls].value
        /\ ~AllRaised =>
            /\ r_calls <= r_retries
            /\ \A i \in 1..Len(r_log) : Raised(i) <=> i < r_calls
            /\ r_pc = "returned"
            /\ r_result = r_log[r_calls].value

\* C16 as amended: the same, where the attempts that count towards R are
\* those raising an exception other than KeyboardInterrupt; an attempt
\* raising KeyboardInterrupt ends the calls at once with that exception.
Interrupted == \E i \in 1..Len(r_log) : r_log[i] = [kind |-> "raise", value |-> "KeyboardInterrupt"]

C16_CalledUntilSuccessInterruptOrRTimes ==
    (RetryFinished /\ r_retries >= 1) =>
        /\ ~r_given => r_retries = 3
        /\ r_calls = Len(r_log)
        /\ r_calls >= 1
        /\ (AllRaised /\ ~Interrupted) =>
            /\ r_calls = r_retries
            /\ r_pc = "raised"
            /\ r_exc = r_log[r_calls].value
        /\ Interrupted =>
            /\ r_calls <= r_retries
            /\ r_pc = "raised"
            /\ r_exc = "KeyboardInterrupt"
            /\ r_log[r_calls].value = "KeyboardInterrupt"
        /\ ~AllRaised =>
            /\ r_calls <= r_retries
            /\ \A i \in 1..Len(r_log) : Raised(i) <=> i < r_calls
            /\ r_pc = "returned"
            /\ r_result = r_log[r_calls].value

C16_Witness ==
    /\ r_pc = "raised"
    /\ ~r_given
    /\ r_calls = 3
    /\ ~Interrupted

\* C17: a KeyboardInterrupt raised by any attempt propagates at once, with
\* no further attempt and no sleep, however many retries remain; for every
\* other exception a sleep happens only between attempts, never after the
\* final failing attempt.
C17_InterruptPropagatesWithoutSleep ==
    /\ \A i \in 1..Len(r_log) :
        r_log[i] = [kind |-> "raise", value |-> "KeyboardInterrupt"] =>
            /\ i = Len(r_log)
            /\ r_pc = "raised"
            /\ r_exc = "KeyboardInterrupt"
    /\ r_pc = "calling" => r_sleeps = r_calls
    /\ r_pc = "sleeping" => (r_sleeps = r_calls - 1 /\ r_calls < r_retries)
    /\ (RetryFinished /\ r_calls >= 1) => r_sleeps = r_calls - 1

C17_Witness ==
    /\ r_pc = "raised"
    /\ r_exc = "KeyboardInterrupt"
    /\ r_calls = 2
    /\ r_retries > r_calls
    /\ r_sleeps = 1

\* C18: with retries <= 0 the wrapped function is never called: the wrapper
\* returns None without calling it and without raising.
C18_NoRetriesNoCall ==
    (r_pc # "idle" /\ r_retries <= 0) =>
        /\ r_pc = "returned"
        /\ r_result = "None"
        /\ r_exc = ""
        /\ r_calls = 0
        /\ r_sleeps = 0

C18_Witness ==
    /\ r_pc = "returned"
    /\ r_retries < 0
    /\ r_calls = 0

(* ------------------ DummyBackend (tasks/backends/dummy.py) ------------ *)

\* How many results are created.
MaxEnqueues == 3

\* What _get_enqueue_on_commit_for_task gives for the task.
EnqueueOnCommit == {"True", "False", "None"}

\* The backend and the transaction state the operations work on.
Backend ==
    [results |-> d_results, in_tx |-> d_in_tx, pending |-> d_pending,
     clock |-> d_clock, next |-> d_next, signals |-> d_signals,
     stored |-> d_stored, dropped |-> d_dropped]

SetBackend(b) ==
    /\ d_results' = b.results
    /\ d_in_tx' = b.in_tx
    /\ d_pending' = b.pending
    /\ d_clock' = b.clock
    /\ d_next' = b.next
    /\ d_signals' = b.signals
    /\ d_stored' = b.stored
    /\ d_dropped' = b.dropped

Ids(rs) == {rs[i].id : i \in 1..Len(rs)}

\* TaskResult(id=get_random_id(), enqueued_at=None, ...)
TaskResult(id) == [id |-> id, enqueued_at |-> NoTime]

\* timezone.now()
timezone_now(b) == b.clock + 1

\* DummyBackend._store_result
DummyBackend_store_result(b, result) ==
    [b EXCEPT !.clock = timezone_now(b),
              !.results = Append(@, [result EXCEPT !.enqueued_at = timezone_now(b)]),
              !.signals = @ + 1,
              !.stored = Append(@, result.id)]

\* transaction.on_commit(partial(self._store_result, result)): inside an
\* atomic block the callback waits for the commit, outside it runs at once.
transaction_on_commit(b, result) ==
    IF b.in_tx
    THEN [b EXCEPT !.pending = Append(@, result)]
    ELSE DummyBackend_store_result(b, result)

\* Mutant: the result is stored at once whatever the setting.
DummyBackend_enqueue_stores_at_once(b, setting) ==
    LET result == TaskResult(b.next)
        created == [b EXCEPT !.next = @ + 1]
    IN DummyBackend_store_result(created, result)

\* DummyBackend.enqueue, after validate_task
DummyBackend_enqueue(b, setting) ==
    LET result == TaskResult(b.next)
        created == [b EXCEPT !.next = @ + 1]
    IN IF setting # "False"
       THEN transaction_on_commit(created, result)
       ELSE DummyBackend_store_result(created, result)

\* The commit runs the waiting callbacks in the order they were registered.
RECURSIVE run_on_commit(_, _)
run_on_commit(b, callbacks) ==
    IF callbacks = <<>>
    THEN b
    ELSE run_on_commit(DummyBackend_store_result(b, Head(callbacks)), Tail(callbacks))

\* The result with the given id as results holds it, NoTime if absent.
StoredAt(rs, id) ==
    IF id \in Ids(rs)
    THEN (CHOOSE r \in {rs[i] : i \in 1..Len(rs)} : r.id = id).enqueued_at
    ELSE NoTime

\* with transaction.atomic(): entered
Begin ==
    /\ ~d_in_tx
    /\ SetBackend([Backend EXCEPT !.in_tx = TRUE])
    /\ d_last' = [NoOp EXCEPT !.op = "begin"]
    /\ UNCHANGED <<jsonVars, retryVars>>

\* The atomic block is left without an exception.
Commit ==
    /\ d_in_tx
    /\ SetBackend(run_on_commit([Backend EXCEPT !.in_tx = FALSE, !.pending = <<>>],
                                d_pending))
    /\ d_last' = [NoOp EXCEPT !.op = "commit"]
    /\ UNCHANGED <<jsonVars, retryVars>>

\* The atomic block is left by an exception: the callbacks are discarded.
Rollback ==
    /\ d_in_tx
    /\ SetBackend([Backend EXCEPT !.in_tx = FALSE, !.pending = <<>>,
                                  !.dropped = @ \cup Ids(d_pending)])
    /\ d_last' = [NoOp EXCEPT !.op = "rollback"]
    /\ UNCHANGED <<jsonVars, retryVars>>

\* backend.enqueue(task, args, kwargs); validate_task may reject the task.
Enqueue ==
    /\ d_next <= MaxEnqueues
    /\ \E valid \in BOOLEAN, setting \in EnqueueOnCommit :
        IF ~valid
        THEN /\ SetBackend(Backend)
             /\ d_last' = [NoOp EXCEPT !.op = "enqueue", !.setting = setting,
                                       !.status = "InvalidTask"]
        ELSE LET b == DummyBackend_enqueue(Backend, setting) IN
             /\ SetBackend(b)
             /\ d_last' = [op |-> "enqueue", id |-> d_next, setting |-> setting,
                           status |-> "ok",
                           enqueued_at |-> StoredAt(b.results, d_next)]
    /\ UNCHANGED <<jsonVars, retryVars>>

\* backend.get_result(result_id)
GetResult ==
    /\ \E result_id \in 1..MaxEnqueues :
        d_last' = [op |-> "get_result", id |-> result_id, setting |-> "",
                   status |-> IF result_id \in Ids(d_results)
                              THEN "ok" ELSE "ResultDoesNotExist",
                   enqueued_at |-> StoredAt(d_results, result_id)]
    /\ SetBackend(Backend)
    /\ UNCHANGED <<jsonVars, retryVars>>

\* backend.clear()
Clear ==
    /\ SetBackend([Backend EXCEPT !.results = <<>>])
    /\ d_last' = [NoOp EXCEPT !.op = "clear"]
    /\ UNCHANGED <<jsonVars, retryVars>>

InitDummy ==
    /\ connection = AnyConnection
    /\ JsonAtRest
    /\ RetryAtRest
    /\ DummyAtRest

NextDummy ==
    \/ Begin
    \/ Commit
    \/ Rollback
    \/ Enqueue
    \/ GetResult
    \/ Clear

SpecDummy == InitDummy /\ [][NextDummy]_vars

\* C19: a result is in results only once its store step has run. With a
\* setting other than False inside an open transaction the result is absent
\* (get_result raises ResultDoesNotExist) until the commit and is never
\* stored after a rollback; with the setting False it is appended before
\* enqueue returns. results keeps the order in which the store steps ran,
\* every stored result has enqueued_at set, and clear() empties the list.
IsSuffix(s, t) ==
    /\ Len(s) <= Len(t)
    /\ \A i \in 1..Len(s) : s[i] = t[Len(t) - Len(s) + i]

C19_StoredOnlyByStoreStep ==
    /\ Ids(d_results) \subseteq Ids([i \in 1..Len(d_stored) |-> [id |-> d_stored[i]]])
    /\ Ids(d_pending) \cap Ids(d_results) = {}
    /\ \A i \in 1..Len(d_pending) : ~\E j \in 1..Len(d_stored) : d_stored[j] = d_pending[i].id
    /\ ~d_in_tx => d_pending = <<>>
    /\ \A id \in d_dropped : ~\E j \in 1..Len(d_stored) : d_stored[j] = id
    /\ \A i \in 1..Len(d_results) : d_results[i].enqueued_at # NoTime
    /\ IsSuffix([i \in 1..Len(d_results) |-> d_results[i].id], d_stored)
    /\ d_signals = Len(d_stored)
    /\ (d_last.op = "enqueue" /\ d_last.status = "ok") =>
        IF d_last.setting = "False" \/ ~d_in_tx
        THEN /\ d_results # <<>>
             /\ d_results[Len(d_results)].id = d_last.id
             /\ d_last.enqueued_at # NoTime
        ELSE /\ d_last.id \notin Ids(d_results)
             /\ d_last.id \in Ids(d_pending)
             /\ d_last.enqueued_at = NoTime
    /\ d_last.op = "get_result" =>
        /\ d_last.status = "ok" <=> d_last.id \in Ids(d_results)
        /\ d_last.id \in Ids(d_pending) => d_last.status = "ResultDoesNotExist"
        /\ d_last.id \in d_dropped => d_last.status = "ResultDoesNotExist"
    /\ d_last.op = "clear" => d_results = <<>>

C19_Witness ==
    /\ d_in_tx
    /\ d_pending # <<>>
    /\ d_dropped # {}
    /\ d_results # <<>>
    /\ d_last.op = "get_result"
    /\ d_last.id \in Ids(d_pending)

====
